---- MODULE Spec2Model ----
(***************************************************************************)
(* A model of src/src/lib/ipsoObject.ts: the decorator metadata registry,  *)
(* IPSOObject.parse / serialize / merge / clone and the proxy layer.       *)
(*                                                                         *)
(* JavaScript values are tagged pairs <<tag, payload>>; IPSOObject         *)
(* instances and options records live in heaps and are referred to by id,  *)
(* so that aliasing (shared nested objects, shared options) is visible.    *)
(* Arrays are held by value: the code never mutates an array in place.     *)
(***************************************************************************)
EXTENDS Integers, Sequences, FiniteSets, TLC

\* ------------------------------------------------------------------ bounds
MaxObjs == 8      \* IPSOObject instances the heap may hold
MaxNum == 2       \* numeric field values range over 1..MaxNum
MaxSteps == 1     \* operations per behaviour of the mapper
MaxDecls == 2     \* decorator applications per behaviour of the registry
MaxGraph == 2     \* instances of an object graph serialized call by call
MaxDepth == 4     \* calls the engine's call stack holds (more than MaxGraph)

VARIABLES reg, heap, opts, last, budget, decls, clones, stack

vars == <<reg, heap, opts, last, budget, decls, clones, stack>>

\* ------------------------------------------------------------------ values
Absent == <<"absent", 0>>      \* not an own property
Undef == <<"undef", 0>>
Null == <<"null", 0>>
NaN == <<"nan", 0>>
Num(i) == <<"num", i>>
Str(s) == <<"str", s>>
Bool(b) == <<"bool", b>>
Obj(id) == <<"obj", id>>       \* an IPSOObject instance
Prx(id) == <<"proxy", id>>     \* a Proxy created by createProxy over instance id
Opt(id) == <<"opt", id>>       \* an IPSOOptions record
Arr(a) == <<"arr", a>>         \* a JavaScript array, a sequence of values
Wire(w) == <<"wire", w>>       \* a plain object, a sequence of <<key, value>>
Err(e) == <<"error", e>>       \* a thrown error

Tag(v) == v[1]
Val(v) == v[2]

\* v == null in JavaScript (reading a property that is not there gives undefined)
IsNullish(v) == Tag(v) \in {"null", "undef", "absent"}

\* JavaScript truthiness
Truthy(v) ==
  CASE Tag(v) = "bool" -> Val(v)
    [] Tag(v) = "num" -> Val(v) # 0
    [] Tag(v) = "str" -> Val(v) # ""
    [] Tag(v) \in {"null", "undef", "absent", "nan"} -> FALSE
    [] OTHER -> TRUE

\* JavaScript ToNumber, on the values of this model (the strings used are not numeric)
ToNumber(v) ==
  CASE Tag(v) = "num" -> v
    [] Tag(v) = "bool" -> IF Val(v) THEN Num(1) ELSE Num(0)
    [] Tag(v) = "null" -> Num(0)
    [] OTHER -> NaN

\* ------------------------------------------------- the class hierarchy
Classes == {"IPSOObject", "Outer", "Inner", "SubOuter"}

\* the superclass of a class ("" for the root)
Parent(cls) ==
  CASE cls = "Outer" -> "IPSOObject"
    [] cls = "Inner" -> "IPSOObject"
    [] cls = "SubOuter" -> "Outer"
    [] OTHER -> ""

RECURSIVE Ancestors(_)
Ancestors(cls) == IF Parent(cls) = "" THEN {} ELSE {Parent(cls)} \cup Ancestors(Parent(cls))

\* ------------------------------------------------- the metadata registry
Syms == {"ipsoKey", "required", "serializeWith", "deserializeWith", "doNotSerialize"}

EmptyMeta == [t \in {} |-> Undef]

\* Reflect's store: obj is the heap of metadata objects, own[sym][cls] the object
\* defined on the constructor itself (0: none)
EmptyReg == [obj |-> <<>>, own |-> [s \in Syms |-> [c \in Classes |-> 0]]]

\* Reflect.getMetadata(sym, constr): walks the constructor's prototype chain
RECURSIVE MetaId(_, _, _)
MetaId(r, sym, cls) ==
  IF cls = "" THEN 0
  ELSE IF r.own[sym][cls] # 0 THEN r.own[sym][cls]
  ELSE MetaId(r, sym, Parent(cls))

\* Reflect.getMetadata(sym, constr) || {}
getMetadata(r, sym, cls) ==
  IF MetaId(r, sym, cls) = 0 THEN EmptyMeta ELSE r.obj[MetaId(r, sym, cls)]

\* "retrieve the current metadata ... enhance it ... store back to the object":
\* the object that getMetadata returned is changed in place and then defined on
\* constr; a fresh {} is made only when the whole chain had none
defineMetadata(r, sym, cls, md) ==
  IF MetaId(r, sym, cls) = 0
  THEN [obj |-> Append(r.obj, md),
        own |-> [r.own EXCEPT ![sym][cls] = Len(r.obj) + 1]]
  ELSE [obj |-> [r.obj EXCEPT ![MetaId(r, sym, cls)] = md],
        own |-> [r.own EXCEPT ![sym][cls] = MetaId(r, sym, cls)]]

\* metadata[property] = value
SetEntry(md, property, value) == (property :> value) @@ md

buildPropertyTransform(kernel, splitArrays, neverSkip) ==
  [kernel |-> kernel,
   splitArrays |-> IF splitArrays = "unset" THEN TRUE ELSE splitArrays = "true",
   neverSkip |-> IF neverSkip = "unset" THEN FALSE ELSE neverSkip = "true"]

ipsoKey(r, cls, property, key) ==
  defineMetadata(r, "ipsoKey", cls,
    SetEntry(SetEntry(getMetadata(r, "ipsoKey", cls), property, Str(key)), key, Str(property)))

required(r, cls, property, predicate) ==
  defineMetadata(r, "required", cls,
    SetEntry(getMetadata(r, "required", cls), property, predicate))

serializeWith(r, cls, property, transform) ==
  defineMetadata(r, "serializeWith", cls,
    SetEntry(getMetadata(r, "serializeWith", cls), property, transform))

deserializeWith(r, cls, property, transform) ==
  defineMetadata(r, "deserializeWith", cls,
    SetEntry(getMetadata(r, "deserializeWith", cls), property, transform))

doNotSerialize(r, cls, property) ==
  defineMetadata(r, "doNotSerialize", cls,
    SetEntry(getMetadata(r, "doNotSerialize", cls), property, Bool(TRUE)))

\* lookupKeyOrProperty: null (here Null) when the token is unknown
lookupKeyOrProperty(r, cls, keyOrProperty) ==
  IF keyOrProperty \in DOMAIN getMetadata(r, "ipsoKey", cls)
  THEN getMetadata(r, "ipsoKey", cls)[keyOrProperty]
  ELSE Null

isSerializable(r, cls, property) ==
  property \notin DOMAIN getMetadata(r, "doNotSerialize", cls)

\* ------------------------------------------------- reading the registry
\* the transforms of this model, by kernel name
NoTransform == [kernel |-> "none", splitArrays |-> TRUE, neverSkip |-> FALSE]

\* kernel (bool) => bool ? 1 : 0
boolToInt(v) == IF Truthy(v) THEN Num(1) ELSE Num(0)

\* a kernel that takes only the boolean true for true
rawToBool_OnlyTrue(raw) == Bool(raw = Bool(TRUE))

\* kernel (raw) => raw === 1 || raw === "true" || raw === "on" || raw === true
rawToBool(raw) == Bool(raw \in {Num(1), Str("true"), Str("on"), Bool(TRUE)})

defaultSerializers(typeName) ==
  IF typeName = "Boolean" THEN buildPropertyTransform("boolToInt", "unset", "true")
  ELSE NoTransform

\* a default deserializer that the skip option switches off
defaultDeserializers_Skippable(typeName) ==
  IF typeName = "Boolean" THEN buildPropertyTransform("rawToBool", "unset", "unset")
  ELSE NoTransform

defaultDeserializers(typeName) ==
  IF typeName = "Boolean" THEN buildPropertyTransform("rawToBool", "unset", "true")
  ELSE NoTransform

\* Reflect.getMetadata("design:type", target, property): what the compiler emits for
\* each decorated property, found along the prototype chain ("" when there is none)
RECURSIVE getPropertyType(_, _)
getPropertyType(cls, property) ==
  CASE cls = "" -> ""
    [] cls = "IPSOObject" /\ property = "isProxy" -> "Boolean"
    [] cls = "IPSOObject" /\ property \in {"options", "client"} -> "Object"
    [] cls = "Outer" /\ property = "n" -> "Number"
    [] cls = "Outer" /\ property = "b" -> "Boolean"
    [] cls = "Outer" /\ property \in {"child", "peer"} -> "Inner"
    [] cls = "Outer" /\ property = "list" -> "Array"
    [] cls = "Inner" /\ property \in {"r", "o"} -> "Number"
    [] OTHER -> getPropertyType(Parent(cls), property)

getSerializer(r, cls, property) ==
  IF property \in DOMAIN getMetadata(r, "serializeWith", cls)
  THEN getMetadata(r, "serializeWith", cls)[property]
  ELSE defaultSerializers(getPropertyType(cls, property))

getDeserializer(r, cls, property) ==
  IF property \in DOMAIN getMetadata(r, "deserializeWith", cls)
  THEN getMetadata(r, "deserializeWith", cls)[property]
  ELSE defaultDeserializers(getPropertyType(cls, property))

\* a required-predicate applied to (me, reference); the one predicate of this model
\* is (me, ref) => ref != null
applyPredicate(name, target, reference) == ~IsNullish(reference)

\* isRequired(target, reference, property); property is a value, since
\* isSerializedObjectEmpty passes what lookupKeyOrProperty returned (maybe null)
isRequired(r, cls, target, reference, property) ==
  LET p == IF Tag(property) = "str" THEN Val(property) ELSE "null"
      md == getMetadata(r, "required", cls)
  IN IF p \in DOMAIN md
     THEN CASE Tag(md[p]) = "bool" -> Val(md[p])
            [] Tag(md[p]) = "fn" -> applyPredicate(Val(md[p]), target, reference)
            [] OTHER -> FALSE
     ELSE FALSE

\* ------------------------------------------------- the classes of the model
\* class IPSOObject: @doNotSerialize options, isProxy, client
BaseReg ==
  doNotSerialize(doNotSerialize(doNotSerialize(EmptyReg,
    "IPSOObject", "options"), "IPSOObject", "isProxy"), "IPSOObject", "client")

RefNotNull == <<"fn", "refNotNull">>

\* class Outer extends IPSOObject {
\*   @ipsoKey("kn") @required((me, ref) => ref != null)
\*   @serializeWith(v => v * 10) @deserializeWith(v => Math.round(v / 10)) n = 1;
\*   @ipsoKey("kb") b: boolean = false;
\*   @ipsoKey("kc") @deserializeWith((obj, me) => new Inner(me.options).parse(obj)) child: Inner;
\*   @ipsoKey("kl") list: number[];
\*   @ipsoKey("kp") peer: Inner;  _cache = 1 }
OuterReg ==
  ipsoKey(ipsoKey(
    deserializeWith(ipsoKey(ipsoKey(
      deserializeWith(serializeWith(required(ipsoKey(BaseReg,
        "Outer", "n", "kn"),
        "Outer", "n", RefNotNull),
        "Outer", "n", buildPropertyTransform("scaleOut", "unset", "unset")),
        "Outer", "n", buildPropertyTransform("scaleIn", "unset", "unset")),
      "Outer", "b", "kb"),
      "Outer", "child", "kc"),
      "Outer", "child", buildPropertyTransform("newInner", "unset", "unset")),
    "Outer", "list", "kl"),
    "Outer", "peer", "kp")

\* class Inner extends IPSOObject {
\*   @ipsoKey("kr") @required() r = 1;  @ipsoKey("ko") o: number }
ClassReg ==
  ipsoKey(required(ipsoKey(OuterReg,
    "Inner", "r", "kr"),
    "Inner", "r", Bool(TRUE)),
    "Inner", "o", "ko")

\* own properties in the order Object.keys lists them
PropOrder == <<"isProxy", "options", "client", "n", "b", "child", "list", "peer",
               "_cache", "r", "o", "ko", "kl">>
Props == {PropOrder[i] : i \in 1..Len(PropOrder)}

StartsWithUnderscore(p) == p = "_cache"

NoProps == [p \in Props |-> Absent]

\* new cls(options): the own properties the constructor and the field initializers set
Construct(cls, options) ==
  [cls |-> cls,
   f |-> CASE cls = "Outer" ->
              [NoProps EXCEPT !["isProxy"] = Bool(FALSE), !["options"] = options,
                              !["n"] = Num(1), !["b"] = Bool(FALSE), !["_cache"] = Num(1)]
           [] cls = "Inner" ->
              [NoProps EXCEPT !["isProxy"] = Bool(FALSE), !["options"] = options,
                              !["r"] = Num(1)]
           [] OTHER ->
              [NoProps EXCEPT !["isProxy"] = Bool(FALSE), !["options"] = options]]

\* ------------------------------------------------- reading instances
hasOwnProperty(h, v, p) ==
  IF Tag(v) \in {"obj", "proxy"} THEN p \in Props /\ h[Val(v)].f[p] # Absent ELSE FALSE

\* v[p], for an own data property (a property that is not there reads undefined)
ReadProp(h, v, p) ==
  IF hasOwnProperty(h, v, p) THEN h[Val(v)].f[p] ELSE Undef

ClassOf(h, v) == h[Val(v)].cls

\* value instanceof IPSOObject
IsIPSOObject(v) == Tag(v) \in {"obj", "proxy"}

\* v.isProxy: true through a proxy's get trap, else the instance's own field
IsProxyOf(h, v) == IF Tag(v) = "proxy" THEN TRUE ELSE Truthy(ReadProp(h, v, "isProxy"))

\* v.unproxy(): this.isProxy ? this.underlyingObject : this
unproxy(h, v) ==
  IF Tag(v) = "proxy" THEN Obj(Val(v))
  ELSE IF IsProxyOf(h, v) THEN ReadProp(h, v, "underlyingObject")
  ELSE v

\* this.options.skipBasicSerializers
skipBasicSerializers(h, o, v) == o[Val(ReadProp(h, v, "options"))]

\* refValue === value
StrictEq(a, b) == a = b /\ Tag(a) \notin {"nan", "arr", "wire"}

\* ------------------------------------------------- serialize
\* kernel v => v * 10
scaleOut(v) == IF Tag(ToNumber(v)) = "num" THEN Num(Val(ToNumber(v)) * 10) ELSE NaN

\* transform(value, this) for the serialize kernels of the model
applySerializer(transform, v) ==
  CASE transform.kernel = "boolToInt" -> boolToInt(v)
    [] transform.kernel = "scaleOut" -> scaleOut(v)
    [] OTHER -> v

\* ret[key] = value on a plain object: an existing key keeps its place
SetKey(w, key, value) ==
  IF \E i \in 1..Len(w) : w[i][1] = key
  THEN [i \in 1..Len(w) |-> IF w[i][1] = key THEN <<key, value>> ELSE w[i]]
  ELSE Append(w, <<key, value>>)

WireKeys(w) == {w[i][1] : i \in 1..Len(w)}
WireValue(w, key) == w[CHOOSE i \in 1..Len(w) : w[i][1] = key][2]

\* the key a property is emitted under: ret[key] with key = null writes "null"
KeyString(key) == IF Tag(key) = "str" THEN Val(key) ELSE "null"

\* value.filter(v => v != null)
RECURSIVE FilterNullish(_)
FilterNullish(a) ==
  IF a = <<>> THEN <<>>
  ELSE IF IsNullish(Head(a)) THEN FilterNullish(Tail(a))
  ELSE <<Head(a)>> \o FilterNullish(Tail(a))

IsErr(v) == Tag(v) = "error"
AnyErr(a) == \E i \in 1..Len(a) : IsErr(a[i])
FirstErr(a) == a[CHOOSE i \in 1..Len(a) : IsErr(a[i]) /\ \A j \in 1..(i - 1) : ~IsErr(a[j])]

\* an emptiness test that is true when no key of obj belongs to a required property
isSerializedObjectEmpty_NoRequiredKey(r, cls, target, obj, refObj) ==
  \A i \in 1..Len(obj) :
    ~isRequired(r, cls, target, refObj, lookupKeyOrProperty(r, cls, obj[i][1]))

\* isSerializedObjectEmpty(obj, refObj), called on the nested instance of class cls:
\* false as soon as one key of obj belongs to a property that is not required
isSerializedObjectEmpty(r, cls, target, obj, refObj) ==
  \A i \in 1..Len(obj) :
    isRequired(r, cls, target, refObj, lookupKeyOrProperty(r, cls, obj[i][1]))

\* "find value and reference (default) value": refValue, null unless the reference
\* has propName as an own property
refValueOf(h, reference, propName) ==
  IF ~IsNullish(reference) /\ hasOwnProperty(h, reference, propName)
  THEN ReadProp(h, reference, propName) ELSE Null

\* an omission rule that drops an equal value whether or not it is required
omitEqual_IgnoringRequired(_required, refValue, value) ==
  ~IsNullish(refValue) /\ StrictEq(refValue, value)

\* if (refValue != null) { if (!_required && refValue === value) return null; }
omitEqual(_required, refValue, value) ==
  ~IsNullish(refValue) /\ ~_required /\ StrictEq(refValue, value)

RECURSIVE serialize(_, _, _, _)
RECURSIVE serializeValue(_, _, _, _, _, _, _, _)

\* the closure serializeValue(propName, value, refValue, transform) of
\* this.serialize(reference)
serializeValue(h, o, this, reference, propName, value, refValue, transform) ==
  LET _required == isRequired(reg, ClassOf(h, this), this, reference, Str(propName))
      nested == serialize(h, o, value, refValue)
      applied(x) ==
        IF transform.kernel # "none"
           /\ (transform.neverSkip \/ ~skipBasicSerializers(h, o, this))
        THEN applySerializer(transform, x) ELSE x
  IN IF IsIPSOObject(value)
     THEN IF IsErr(nested) THEN nested
          ELSE IF isSerializedObjectEmpty(reg, ClassOf(h, value), value, Val(nested), reference)
          THEN Null
          ELSE applied(nested)
     ELSE IF omitEqual(_required, refValue, value)
          THEN Null
          ELSE applied(value)

\* one pass of "for (const propName of Object.keys(this))": the value to emit for
\* propName (null or undefined: nothing is emitted), or the error thrown
serializeProperty(h, o, this, reference, propName) ==
  LET value == ReadProp(h, this, propName)
      refValue == refValueOf(h, reference, propName)
      serializer == getSerializer(reg, ClassOf(h, this), propName)
      requiresArraySplitting ==
        IF serializer.kernel # "none" THEN serializer.splitArrays ELSE TRUE
      items == [i \in 1..Len(Val(value)) |->
                 serializeValue(h, o, this, reference, propName, Val(value)[i],
                   IF IsNullish(refValue) THEN Null ELSE Val(refValue)[i], serializer)]
  IN IF Tag(value) = "arr" /\ requiresArraySplitting
     THEN IF ~IsNullish(refValue)
             /\ ~(Tag(refValue) = "arr" /\ Len(Val(refValue)) = Len(Val(value)))
          THEN Err("cannot serialize arrays when the reference values don't match")
          ELSE IF AnyErr(items) THEN FirstErr(items)
          ELSE IF FilterNullish(items) = <<>> THEN Null
          ELSE Arr(FilterNullish(items))
     ELSE serializeValue(h, o, this, reference, propName, value, refValue, serializer)

\* whether the loop of serialize looks at propName at all
IsSerialized(h, this, propName) ==
  /\ ~StartsWithUnderscore(propName)
  /\ hasOwnProperty(h, this, propName)
  /\ isSerializable(reg, ClassOf(h, this), propName)

RECURSIVE serializeProps(_, _, _, _, _, _)
serializeProps(h, o, this, reference, i, ret) ==
  IF i > Len(PropOrder) THEN Wire(ret)
  ELSE LET propName == PropOrder[i]
           key == KeyString(lookupKeyOrProperty(reg, ClassOf(h, this), propName))
           value == serializeProperty(h, o, this, reference, propName)
       IN IF ~IsSerialized(h, this, propName)
          THEN serializeProps(h, o, this, reference, i + 1, ret)
          ELSE IF IsErr(value) THEN value
          ELSE IF IsNullish(value) THEN serializeProps(h, o, this, reference, i + 1, ret)
          ELSE serializeProps(h, o, this, reference, i + 1, SetKey(ret, key, value))

\* this.serialize(reference): a Wire value, or the error thrown
serialize(h, o, this, reference) ==
  IF IsProxyOf(h, this)
  THEN IF IsIPSOObject(unproxy(h, this))
       THEN serialize(h, o, unproxy(h, this), reference)
       ELSE Err("TypeError: cannot read property 'serialize' of undefined")
  ELSE serializeProps(h, o, this,
         IF ~IsNullish(reference) /\ IsIPSOObject(reference) /\ IsProxyOf(h, reference)
         THEN unproxy(h, reference) ELSE reference,
         1, <<>>)

\* ------------------------------------------------- parse
\* kernel v => Math.round(v / 10), on the non-negative numbers of the model
scaleIn(v) == IF Tag(ToNumber(v)) = "num" THEN Num((Val(ToNumber(v)) + 5) \div 10) ELSE NaN

\* typeof value === "object"
IsObjectTyped(v) == Tag(v) \in {"wire", "null", "arr", "obj", "proxy", "opt"}

\* this[propName] = value (through a proxy the set trap writes to the target)
SetProp(h, this, propName, value) ==
  [h EXCEPT ![Val(this)].f[propName] = value]

\* entries(obj) of a plain object; the polyfill lists nothing for a primitive
entries(obj) == IF Tag(obj) = "wire" THEN Val(obj) ELSE <<>>

RECURSIVE parse(_, _, _, _)
RECURSIVE parseValue(_, _, _, _, _, _)
RECURSIVE parseItems(_, _, _, _, _, _)

\* transform(value, this) for the deserialize kernels of the model; newInner is
\* (obj, me) => new Inner(me.options).parse(obj). Gives the heap and the value.
applyDeserializer(h, o, this, transform, value) ==
  CASE transform.kernel = "rawToBool" -> [h |-> h, v |-> rawToBool(value)]
    [] transform.kernel = "scaleIn" -> [h |-> h, v |-> scaleIn(value)]
    [] transform.kernel = "newInner" ->
         [h |-> parse(Append(h, Construct("Inner", ReadProp(h, this, "options"))),
                      o, Obj(Len(h) + 1), entries(value)),
          v |-> Obj(Len(h) + 1)]
    [] OTHER -> [h |-> h, v |-> value]

\* value.map(v => this.parseValue(...)), left to right
parseItems(h, o, this, items, transform, split) ==
  IF items = <<>> THEN [h |-> h, v |-> <<>>]
  ELSE LET first == parseValue(h, o, this, Head(items), transform, split)
           rest == parseItems(first.h, o, this, Tail(items), transform, split)
       IN [h |-> rest.h, v |-> <<first.v>> \o rest.v]

\* this.parseValue(propKey, value, transform, requiresArraySplitting)
parseValue(h, o, this, value, transform, requiresArraySplitting) ==
  IF Tag(value) = "arr" /\ requiresArraySplitting
  THEN LET r == parseItems(h, o, this, Val(value), transform, requiresArraySplitting)
       IN [h |-> r.h, v |-> Arr(r.v)]
  ELSE IF IsObjectTyped(value)
  THEN IF transform.kernel # "none"
       THEN applyDeserializer(h, o, this, transform, value)
       ELSE [h |-> h, v |-> Undef]
  ELSE IF transform.kernel # "none"
          /\ (transform.neverSkip \/ ~skipBasicSerializers(h, o, this))
  THEN applyDeserializer(h, o, this, transform, value)
  ELSE [h |-> h, v |-> value]

\* the property one entry of parse's loop writes to ("" when the entry is skipped)
parseTarget(r, cls, key) ==
  IF getDeserializer(r, cls, key).kernel = "none"
  THEN IF Truthy(lookupKeyOrProperty(r, cls, key))
       THEN Val(lookupKeyOrProperty(r, cls, key)) ELSE ""
  ELSE key

\* one pass of the loop of parse
parseEntry(h, o, this, key, value) ==
  LET cls == ClassOf(h, this)
      propName == parseTarget(reg, cls, key)
      deserializer == getDeserializer(reg, cls, propName)
      requiresArraySplitting ==
        IF deserializer.kernel # "none" THEN deserializer.splitArrays ELSE TRUE
      parsed == parseValue(h, o, this, value, deserializer, requiresArraySplitting)
  IN IF propName = "" THEN h
     ELSE SetProp(parsed.h, this, propName, parsed.v)

\* this.parse(obj), obj given as its entries: the heap afterwards
parse(h, o, this, obj) ==
  IF obj = <<>> THEN h
  ELSE parse(parseEntry(h, o, this, Head(obj)[1], Head(obj)[2]), o, this, Tail(obj))

\* ------------------------------------------------- merge and clone
\* this.merge(obj), obj given as its entries
RECURSIVE merge(_, _, _)
merge(h, this, obj) ==
  IF obj = <<>> THEN h
  ELSE merge(IF hasOwnProperty(h, this, Head(obj)[1])
             THEN SetProp(h, this, Head(obj)[1], Head(obj)[2]) ELSE h,
             this, Tail(obj))

\* this.clone(): the heap afterwards and the clone, or the error serialize threw.
\* Through a proxy the get trap returns () => me.clone().createProxy().
clone(h, o, this) ==
  LET me == Obj(Val(this))
      ret == Obj(Len(h) + 1)
      serialized == serialize(h, o, me, Null)
  IN IF IsErr(serialized) THEN [h |-> h, v |-> serialized]
     ELSE [h |-> parse(Append(h, Construct(ClassOf(h, me), ReadProp(h, me, "options"))),
                       o, ret, Val(serialized)),
           v |-> IF Tag(this) = "proxy" THEN Prx(Val(ret)) ELSE ret]

\* ------------------------------------------------- the proxy
\* this.createProxy() with no custom traps
createProxy(this) == Prx(Val(this))

\* the get trap of the proxy w, for the metadata keys and the data properties
proxyGet(h, w, key) ==
  LET me == Obj(Val(w))
      value == ReadProp(h, me, key)
  IN CASE key = "isProxy" -> Bool(TRUE)
       [] key = "underlyingObject" -> me
       [] Tag(value) = "arr" /\ Len(Val(value)) > 0 /\ IsIPSOObject(Val(value)[1]) ->
            Arr([i \in 1..Len(Val(value)) |-> createProxy(Val(value)[i])])
       [] IsIPSOObject(value) -> createProxy(value)
       [] OTHER -> value

\* ------------------------------------------------- the mapper's state machine
Nums == {Num(i) : i \in 1..MaxNum}

\* instances built by construction and direct field assignment:
\*   1 Outer A { n 1, b false, child a, peer c, list [1,2] }   2 Inner a { r 1 }
\*   3 Outer B { n 2, b true, child b, list [] }          4 Inner b { r 1, o 2 }
\*   5 Outer C { n 1, b true, list [c, a] }, raw options  6 Inner c { r undefined, o 1 }
InitHeap ==
  << [Construct("Outer", Opt(1)) EXCEPT !.f["child"] = Obj(2), !.f["peer"] = Obj(6),
                                        !.f["list"] = Arr(<<Num(1), Num(2)>>)],
     Construct("Inner", Opt(1)),
     [Construct("Outer", Opt(1)) EXCEPT !.f["n"] = Num(2), !.f["b"] = Bool(TRUE),
                                        !.f["child"] = Obj(4), !.f["list"] = Arr(<<>>)],
     [Construct("Inner", Opt(1)) EXCEPT !.f["o"] = Num(2)],
     [Construct("Outer", Opt(2)) EXCEPT !.f["b"] = Bool(TRUE),
                                        !.f["list"] = Arr(<<Obj(6), Obj(2)>>)],
     [Construct("Inner", Opt(2)) EXCEPT !.f["r"] = Undef, !.f["o"] = Num(1)] >>

\* options records: 1 is {}, 2 is {skipBasicSerializers: true}
InitOpts == <<FALSE, TRUE>>

NoCall == [op |-> "none", this |-> Null, arg |-> Null, ret |-> Null,
           h0 |-> <<>>, o0 |-> <<>>]

Init ==
  /\ reg = ClassReg
  /\ heap = InitHeap
  /\ opts = InitOpts
  /\ last = NoCall
  /\ budget = MaxSteps
  /\ decls = <<>>
  /\ clones = {}
  /\ stack = <<>>

Ids == 1..Len(heap)
Instances == {Obj(i) : i \in Ids}
InstancesOf(cls) == {Obj(i) : i \in {j \in Ids : heap[j].cls = cls}}
Proxies == {Prx(i) : i \in Ids}

Called(op, this, arg, ret) ==
  last' = [op |-> op, this |-> this, arg |-> arg, ret |-> ret, h0 |-> heap, o0 |-> opts]

\* raw values a wire document may carry for a simple field
RawValues == {Num(0), Num(1), Num(10), Num(20), Str("true"), Str("on"), Str("off"),
              Bool(TRUE), Bool(FALSE), Null, Undef}

InnerDoc == <<<<"kr", Num(2)>>, <<"ko", Num(1)>>>>

\* the wire documents parse is given
WireDocs(cls) ==
  {<<<<"isProxy", Num(1)>>>>, <<<<"options", Num(1)>>>>, <<<<"zz", Num(1)>>>>}
  \cup
  IF cls = "Outer"
  THEN {<<<<"kb", v>>>> : v \in RawValues}
       \cup {<<<<"kn", v>>>> : v \in {Num(10), Num(20), Null}}
       \cup {<<<<"b", Num(1)>>>>, <<<<"n", Num(20)>>>>,
             <<<<"kc", Wire(InnerDoc)>>>>, <<<<"kc", Wire(<<>>)>>>>,
             <<<<"kp", Wire(InnerDoc)>>>>,
             <<<<"kp", Wire(InnerDoc)>>, <<"kb", Num(0)>>>>,
             <<<<"kb", Num(0)>>, <<"kp", Wire(InnerDoc)>>>>,
             <<<<"zz", Num(1)>>, <<"kn", Num(20)>>>>,
             <<<<"kn", Num(20)>>, <<"zz", Num(1)>>>>,
             <<<<"kl", Arr(<<Num(1)>>)>>>>, <<<<"kl", Null>>>>,
             <<<<"kl", Arr(<<Wire(InnerDoc)>>)>>>>,
             <<<<"kb", Arr(<<Num(1), Num(0)>>)>>>>}
  ELSE {InnerDoc, <<<<"kr", Null>>>>, <<<<"o", Num(2)>>>>, <<<<"ko", Wire(InnerDoc)>>>>}

\* the partial objects merge is given
Partials(cls) ==
  {<<<<"options", Opt(2)>>>>, <<<<"isProxy", Bool(TRUE)>>>>, <<<<"client", Str("c")>>>>}
  \cup
  IF cls = "Outer"
  THEN {<<<<"n", Num(2)>>, <<"b", Bool(TRUE)>>>>, <<<<"child", Obj(4)>>>>,
        <<<<"list", Arr(<<Num(1)>>)>>, <<"peer", Obj(2)>>>>}
  ELSE {<<<<"r", Num(2)>>, <<"o", Num(2)>>>>, <<<<"o", Null>>>>}

\* the values a direct assignment this[prop] = value may store
Assignable(cls) ==
  IF cls = "Outer"
  THEN ({"n"} \X (Nums \cup {Null}))
       \cup ({"b"} \X {Bool(TRUE), Bool(FALSE)})
       \cup ({"child", "peer"} \X (InstancesOf("Inner") \cup {Undef}))
       \cup ({"list"} \X {Arr(<<>>), Arr(<<Num(1)>>), Arr(<<Num(2), Num(1)>>),
                          Arr(<<Obj(4)>>)})
  ELSE {"r", "o"} \X (Nums \cup {Null})

SerializeStep(this, reference) ==
  /\ budget > 0
  /\ budget' = budget - 1
  /\ Called("serialize", this, reference, serialize(heap, opts, this, reference))
  /\ UNCHANGED <<reg, heap, opts, decls, clones, stack>>

ParseStep(this, obj) ==
  /\ budget > 0
  /\ Len(parse(heap, opts, this, obj)) <= MaxObjs
  /\ budget' = budget - 1
  /\ heap' = parse(heap, opts, this, obj)
  /\ Called("parse", this, obj, this)
  /\ UNCHANGED <<reg, opts, decls, clones, stack>>

MergeStep(this, obj) ==
  /\ budget > 0
  /\ budget' = budget - 1
  /\ heap' = merge(heap, this, obj)
  /\ Called("merge", this, obj, this)
  /\ UNCHANGED <<reg, opts, decls, clones, stack>>

CloneStep(this) ==
  /\ budget > 0
  /\ Len(clone(heap, opts, this).h) <= MaxObjs
  /\ budget' = budget - 1
  /\ heap' = clone(heap, opts, this).h
  /\ Called("clone", this, Null, clone(heap, opts, this).v)
  /\ clones' = IF IsErr(clone(heap, opts, this).v) THEN clones
               ELSE clones \cup {<<Val(this), Val(clone(heap, opts, this).v)>>}
  /\ UNCHANGED <<reg, opts, decls, stack>>

\* this[prop] = value, on the instance or through its proxy
AssignStep(this, prop, value) ==
  /\ budget > 0
  /\ budget' = budget - 1
  /\ heap' = SetProp(heap, this, prop, value)
  /\ Called("assign", this, <<prop, value>>, value)
  /\ UNCHANGED <<reg, opts, decls, clones, stack>>

\* this.options.skipBasicSerializers = value
SetSkipStep(this, value) ==
  /\ budget > 0
  /\ Tag(ReadProp(heap, this, "options")) = "opt"
  /\ budget' = budget - 1
  /\ opts' = [opts EXCEPT ![Val(ReadProp(heap, this, "options"))] = value]
  /\ Called("setSkip", this, Bool(value), Bool(value))
  /\ UNCHANGED <<reg, heap, decls, clones, stack>>

\* this.link(client)
LinkStep(this) ==
  /\ budget > 0
  /\ budget' = budget - 1
  /\ heap' = SetProp(heap, this, "client", Str("client"))
  /\ Called("link", this, Str("client"), this)
  /\ UNCHANGED <<reg, opts, decls, clones, stack>>

\* w = this.createProxy(); w[key]
ProxyGetStep(this, key) ==
  /\ budget > 0
  /\ budget' = budget - 1
  /\ Called("get", createProxy(this), Str(key), proxyGet(heap, createProxy(this), key))
  /\ UNCHANGED <<reg, heap, opts, decls, clones, stack>>

\* v.unproxy(), on an instance or on a proxy
UnproxyStep(v) ==
  /\ budget > 0
  /\ budget' = budget - 1
  /\ Called("unproxy", v, Null, unproxy(heap, v))
  /\ UNCHANGED <<reg, heap, opts, decls, clones, stack>>

Next ==
  \/ \E this \in Instances \cup {Prx(1)} :
       \E reference \in {Null, Prx(3)} \cup InstancesOf(ClassOf(heap, this)) :
         SerializeStep(this, reference)
  \/ \E this \in Instances : \E obj \in WireDocs(ClassOf(heap, this)) : ParseStep(this, obj)
  \/ \E this \in Instances : \E obj \in Partials(ClassOf(heap, this)) : MergeStep(this, obj)
  \/ \E this \in Instances \cup {Prx(3)} : CloneStep(this)
  \/ \E this \in Instances : \E a \in Assignable(ClassOf(heap, this)) :
       AssignStep(this, a[1], a[2])
  \/ \E this \in Instances : \E value \in BOOLEAN : SetSkipStep(this, value)
  \/ \E this \in Instances : LinkStep(this)
  \/ \E this \in Instances : \E key \in Props \cup {"underlyingObject"} : ProxyGetStep(this, key)
  \/ \E v \in Instances \cup Proxies : UnproxyStep(v)

Spec == Init /\ [][Next]_vars

\* the same machine, run for one operation more
InitSeq ==
  /\ reg = ClassReg
  /\ heap = InitHeap
  /\ opts = InitOpts
  /\ last = NoCall
  /\ budget = MaxSteps + 1
  /\ decls = <<>>
  /\ clones = {}
  /\ stack = <<>>

SpecSeq == InitSeq /\ [][Next]_vars

\* ------------------------------------------------- what the last call was about
\* the instance the last call ran on (behind the proxy, if it went through one)
LastThis == Obj(Val(last.this))

\* the reference serialize worked with, unwrapped as serialize unwraps it
LastRef ==
  IF ~IsNullish(last.arg) /\ IsIPSOObject(last.arg) /\ IsProxyOf(heap, last.arg)
  THEN unproxy(heap, last.arg) ELSE last.arg

Serialized == last.op = "serialize" /\ ~IsErr(last.ret)

Emitted(key) == Serialized /\ key \in WireKeys(Val(last.ret))

\* the wire key serialize emits prop under
KeyOf(this, prop) == KeyString(lookupKeyOrProperty(reg, ClassOf(heap, this), prop))

\* the properties serialize looks at that hold a nested instance, and the others
NestedProps(this) ==
  {p \in Props : IsSerialized(heap, this, p) /\ IsIPSOObject(ReadProp(heap, this, p))}
SimpleProps(this) ==
  {p \in Props : IsSerialized(heap, this, p) /\ ~IsIPSOObject(ReadProp(heap, this, p))}

\* the serialized form of the nested instance in this[prop]
NestedForm(this, reference, prop) ==
  serialize(heap, opts, ReadProp(heap, this, prop), refValueOf(heap, reference, prop))

\* whether the nested form holds a key of a required (an optional) field of the
\* nested instance
KeyIsRequired(this, reference, prop, key) ==
  isRequired(reg, ClassOf(heap, ReadProp(heap, this, prop)), ReadProp(heap, this, prop),
             reference,
             lookupKeyOrProperty(reg, ClassOf(heap, ReadProp(heap, this, prop)), key))
HasRequiredKey(this, reference, prop) ==
  \E key \in WireKeys(Val(NestedForm(this, reference, prop))) :
    KeyIsRequired(this, reference, prop, key)
HasOptionalKey(this, reference, prop) ==
  \E key \in WireKeys(Val(NestedForm(this, reference, prop))) :
    ~KeyIsRequired(this, reference, prop, key)

EmittedWhole(this, reference, prop) ==
  /\ Emitted(KeyOf(this, prop))
  /\ WireValue(Val(last.ret), KeyOf(this, prop)) = NestedForm(this, reference, prop)

C2_AsStated ==
  Serialized =>
    \A p \in SimpleProps(LastThis) :
      LET value == ReadProp(heap, LastThis, p)
          refValue == refValueOf(heap, LastRef, p)
      IN IF ~IsNullish(refValue) /\ value = refValue
         THEN Emitted(KeyOf(LastThis, p))
                <=> isRequired(reg, ClassOf(heap, LastThis), LastThis, LastRef, Str(p))
         ELSE ~IsNullish(value) => Emitted(KeyOf(LastThis, p))

\* C2 amended: when serialize returns, the same holds of every field whose value is
\* neither a nested instance nor an array (an array is compared element by element,
\* is left out when no element remains, and makes serialize raise when the
\* reference array has another length).
C2_DifferentialOmission ==
  Serialized =>
    \A p \in SimpleProps(LastThis) :
      LET value == ReadProp(heap, LastThis, p)
          refValue == refValueOf(heap, LastRef, p)
      IN Tag(value) # "arr" =>
           IF ~IsNullish(refValue) /\ value = refValue
           THEN Emitted(KeyOf(LastThis, p))
                  <=> isRequired(reg, ClassOf(heap, LastThis), LastThis, LastRef, Str(p))
           ELSE ~IsNullish(value) => Emitted(KeyOf(LastThis, p))

\* serialize has run against a reference that equals the instance in a required
\* field and in a field that is not required
C2_Witness ==
  /\ Serialized
  /\ \E p, q \in SimpleProps(LastThis) :
       /\ Tag(ReadProp(heap, LastThis, p)) # "arr"
       /\ Tag(ReadProp(heap, LastThis, q)) # "arr"
       /\ ~IsNullish(refValueOf(heap, LastRef, p))
       /\ ReadProp(heap, LastThis, p) = refValueOf(heap, LastRef, p)
       /\ ReadProp(heap, LastThis, q) = refValueOf(heap, LastRef, q)
       /\ isRequired(reg, ClassOf(heap, LastThis), LastThis, LastRef, Str(p))
       /\ ~isRequired(reg, ClassOf(heap, LastThis), LastThis, LastRef, Str(q))
       /\ Emitted(KeyOf(LastThis, p))
       /\ ~Emitted(KeyOf(LastThis, q))

\* ------------------------------------------------- C3
\* new (class of x)(x.options).parse(x.serialize()): the heap afterwards, the fresh
\* instance being the last one. (The fresh instance takes x's options record, as
\* clone does; where C3 applies that record does not skip, like a fresh {}.)
Reparsed(h, o, x) ==
  parse(Append(h, Construct(ClassOf(h, x), ReadProp(h, x, "options"))),
        o, Obj(Len(h) + 1), Val(serialize(h, o, x, Null)))

\* parse(serialize(x)).serialize()
RoundTrip(h, o, x) == serialize(Reparsed(h, o, x), o, Obj(Len(h) + 1), Null)

\* serialize() has returned for an instance that does not skip basic serializers
SerializedPlain ==
  /\ Serialized
  /\ IsNullish(last.arg)
  /\ ~skipBasicSerializers(heap, opts, LastThis)

\* C3 as stated: for every instance that does not skip basic serializers,
\* parse(serialize(x)).serialize() equals x.serialize().
C3_AsStated == SerializedPlain => RoundTrip(heap, opts, LastThis) = last.ret

\* x makes the round trip: it does not skip basic serializers; every nested
\* instance it serializes (in a field or in an array) sits in a field whose
\* deserialize transform rebuilds its class, and makes the round trip itself; and
\* every field a fresh instance starts with a non-null value in is emitted by x.
RECURSIVE RoundTrippable(_, _, _)
RoundTrippable(h, o, x) ==
  /\ ~skipBasicSerializers(h, o, x)
  /\ ~IsErr(serialize(h, o, x, Null))
  /\ \A p \in {q \in Props : IsSerialized(h, x, q)} :
       LET v == ReadProp(h, x, p)
           rebuilt == getDeserializer(reg, ClassOf(h, x), p).kernel = "newInner"
       IN /\ IsIPSOObject(v) =>
               rebuilt /\ ClassOf(h, v) = "Inner" /\ RoundTrippable(h, o, v)
          /\ Tag(v) = "arr" =>
               \A i \in 1..Len(Val(v)) :
                 IsIPSOObject(Val(v)[i]) =>
                   rebuilt /\ ClassOf(h, Val(v)[i]) = "Inner" /\ RoundTrippable(h, o, Val(v)[i])
  /\ \A p \in Props :
       (/\ ~IsNullish(Construct(ClassOf(h, x), Null).f[p])
        /\ ~StartsWithUnderscore(p)
        /\ isSerializable(reg, ClassOf(h, x), p))
       => KeyString(lookupKeyOrProperty(reg, ClassOf(h, x), p))
            \in WireKeys(Val(serialize(h, o, x, Null)))

\* C3 amended: parse(serialize(x)).serialize() equals x.serialize() for every
\* instance x that makes the round trip in the sense above.
C3_RoundTrip ==
  (SerializedPlain /\ RoundTrippable(heap, opts, LastThis))
    => RoundTrip(heap, opts, LastThis) = last.ret

\* serialize() has returned a form with a converted boolean, a scaled number and a
\* nested instance, for an instance that makes the round trip
C3_Witness ==
  /\ SerializedPlain
  /\ RoundTrippable(heap, opts, LastThis)
  /\ {"kn", "kb", "kc"} \subseteq WireKeys(Val(last.ret))
  /\ RoundTrip(heap, opts, LastThis) = last.ret

\* ------------------------------------------------- C4
\* what an instance shows: its serialized form and its own field values
View(h, o, v) == <<serialize(h, o, v, Null), h[Val(v)].f>>

\* the instances reached from x: x and the instances in its fields and arrays
Owned(h, x) ==
  {x} \cup {h[x].f[p][2] : p \in {q \in Props : IsIPSOObject(h[x].f[q])}}
      \cup UNION {{Val(h[x].f[p][2][i]) : i \in {j \in 1..Len(h[x].f[p][2]) :
                                                  IsIPSOObject(h[x].f[p][2][j])}}
                  : p \in {q \in Props : Tag(h[x].f[q]) = "arr"}}

Mutated == last.op \in {"assign", "setSkip"}

\* C4 as stated, the independence it promises: after an assignment to a field of x,
\* of an instance nested in x or of x's options record, the serialized form and the
\* field values of a clone of x are what they were, and the other way round.
C4_AsStated ==
  Mutated =>
    \A pair \in clones :
      /\ Val(last.this) \in Owned(last.h0, pair[1])
           => View(heap, opts, Obj(pair[2])) = View(last.h0, last.o0, Obj(pair[2]))
      /\ Val(last.this) \in Owned(last.h0, pair[2])
           => View(heap, opts, Obj(pair[1])) = View(last.h0, last.o0, Obj(pair[1]))

\* ------------------------------------------------- C5
\* the array fields serialize splits, and whether the reference value of one is
\* non-null and not an array of the same length
SplitArrayProps(this) ==
  {p \in SimpleProps(this) :
     /\ Tag(ReadProp(heap, this, p)) = "arr"
     /\ getSerializer(reg, ClassOf(heap, this), p).splitArrays}
Mismatch(this, reference, p) ==
  /\ ~IsNullish(refValueOf(heap, reference, p))
  /\ ~(/\ Tag(refValueOf(heap, reference, p)) = "arr"
       /\ Len(Val(refValueOf(heap, reference, p))) = Len(Val(ReadProp(heap, this, p))))

\* the numbers of the array in this[p] that differ from the reference array's
\* number at the same index
RECURSIVE Differing(_, _)
Differing(a, b) ==
  IF a = <<>> THEN <<>>
  ELSE IF b # <<>> /\ Head(a) = Head(b) THEN Differing(Tail(a), Tail(b))
  ELSE <<Head(a)>> \o Differing(Tail(a), IF b = <<>> THEN <<>> ELSE Tail(b))

\* C5 as stated: serialize raises exactly when a split array field has a non-null
\* reference value that is not an array of the same length; otherwise each element
\* is serialized against the reference element at the same index.
C5_AsStated ==
  last.op = "serialize" =>
    /\ IsErr(last.ret) <=> \E p \in SplitArrayProps(LastThis) : Mismatch(LastThis, LastRef, p)
    /\ Serialized =>
         \A p \in SplitArrayProps(LastThis) :
           LET value == Val(ReadProp(heap, LastThis, p))
               refValue == refValueOf(heap, LastRef, p)
               left == Differing(value, IF IsNullish(refValue) THEN <<>> ELSE Val(refValue))
           IN (p = "list" /\ \A i \in 1..Len(value) : Tag(value[i]) = "num") =>
                IF left = <<>> THEN ~Emitted(KeyOf(LastThis, p))
                ELSE /\ Emitted(KeyOf(LastThis, p))
                     /\ WireValue(Val(last.ret), KeyOf(LastThis, p)) = Arr(left)

\* ------------------------------------------------- C6
\* entry i of the document parse was given is the last one written to its property
LastFor(cls, obj, i) ==
  \A j \in (i + 1)..Len(obj) :
    parseTarget(reg, cls, obj[j][1]) # parseTarget(reg, cls, obj[i][1])
OnlyFor(cls, obj, i) ==
  \A j \in 1..Len(obj) :
    j # i => parseTarget(reg, cls, obj[j][1]) # parseTarget(reg, cls, obj[i][1])

IsPrimitive(v) == Tag(v) \in {"num", "str", "bool", "null", "undef", "nan"}

\* C6 as stated: parse leaves a field as it was when its wire value is a nested
\* object and the field has no deserialize transform, writes nothing for a key
\* that resolves to no field, and still assigns every other key.
C6_AsStated ==
  last.op = "parse" =>
    LET cls == ClassOf(heap, LastThis)
        obj == last.arg
    IN \A i \in 1..Len(obj) :
         LET target == parseTarget(reg, cls, obj[i][1])
             transform == getDeserializer(reg, cls, target)
         IN /\ (/\ target # ""
                /\ Tag(obj[i][2]) = "wire"
                /\ transform.kernel = "none"
                /\ OnlyFor(cls, obj, i))
               => ReadProp(heap, LastThis, target) = ReadProp(last.h0, LastThis, target)
                  /\ hasOwnProperty(heap, LastThis, target)
                       = hasOwnProperty(last.h0, LastThis, target)
            /\ (\A j \in 1..Len(obj) : parseTarget(reg, cls, obj[j][1]) = "")
               => heap = last.h0
            /\ (/\ target # ""
                /\ Tag(obj[i][2]) \in {"num", "str", "bool"}
                /\ LastFor(cls, obj, i))
               => ReadProp(heap, LastThis, target)
                    = parseValue(last.h0, opts, LastThis, obj[i][2], transform, TRUE).v

\* ------------------------------------------------- C7
\* C7 as stated: through w = x.createProxy(), isProxy reads true and unproxy() gives
\* x; unproxy() on an instance that is no proxy gives that instance; a field
\* holding an instance (or an array starting with one) reads as a proxy (an array
\* of proxies) over that instance (those instances).
C7_AsStated ==
  /\ last.op = "unproxy" =>
       IF Tag(last.this) = "proxy" THEN last.ret = Obj(Val(last.this))
       ELSE last.ret = last.this
  /\ last.op = "get" =>
       LET key == Val(last.arg)
           value == ReadProp(heap, LastThis, key)
       IN /\ key = "isProxy" => last.ret = Bool(TRUE)
          /\ key = "underlyingObject" => last.ret = LastThis
          /\ (key \in Props \ {"isProxy"} /\ IsIPSOObject(value))
               => Tag(last.ret) = "proxy" /\ unproxy(heap, last.ret) = value
          /\ (/\ key \in Props \ {"isProxy"}
              /\ Tag(value) = "arr"
              /\ Len(Val(value)) > 0
              /\ IsIPSOObject(Val(value)[1]))
               => /\ Tag(last.ret) = "arr"
                  /\ Len(Val(last.ret)) = Len(Val(value))
                  /\ \A i \in 1..Len(Val(value)) :
                       /\ Tag(Val(last.ret)[i]) = "proxy"
                       /\ unproxy(heap, Val(last.ret)[i]) = Val(value)[i]

\* ------------------------------------------------- C8
\* the boolean-typed properties of a class that declare no transform
BooleanProps(cls) ==
  {p \in Props : /\ getPropertyType(cls, p) = "Boolean"
                 /\ p \notin DOMAIN getMetadata(reg, "serializeWith", cls)
                 /\ p \notin DOMAIN getMetadata(reg, "deserializeWith", cls)}

TrueRaws == {Num(1), Str("true"), Str("on"), Bool(TRUE)}

\* C8: for a boolean-typed field with no declared transform, parse stores true for
\* the raw values 1, "true", "on" and true and false for every other primitive, and
\* serialize emits 1 for true and 0 for false (always, when there is no reference),
\* whether or not the instance's options skip basic serializers.
C8_BooleanDefaults ==
  /\ last.op = "parse" =>
       \A i \in 1..Len(last.arg) :
         LET cls == ClassOf(heap, LastThis)
             target == parseTarget(reg, cls, last.arg[i][1])
         IN (/\ target \in BooleanProps(cls)
             /\ IsPrimitive(last.arg[i][2])
             /\ LastFor(cls, last.arg, i))
            => ReadProp(heap, LastThis, target) = Bool(last.arg[i][2] \in TrueRaws)
  /\ Serialized =>
       \A p \in BooleanProps(ClassOf(heap, LastThis)) \cap SimpleProps(LastThis) :
         LET value == ReadProp(heap, LastThis, p)
         IN Tag(value) = "bool" =>
              /\ IsNullish(LastRef) => Emitted(KeyOf(LastThis, p))
              /\ Emitted(KeyOf(LastThis, p)) =>
                   WireValue(Val(last.ret), KeyOf(LastThis, p))
                     = Num(IF Val(value) THEN 1 ELSE 0)

\* parse has stored true for the raw value "on" in an instance whose options skip
\* basic serializers
C8_Witness ==
  /\ last.op = "parse"
  /\ skipBasicSerializers(heap, opts, LastThis)
  /\ last.arg = <<<<"kb", Str("on")>>>>
  /\ ReadProp(heap, LastThis, "b") = Bool(TRUE)

\* ------------------------------------------------- C9
Excluded(cls) == {p \in Props : ~isSerializable(reg, cls, p)}

\* C9 as stated: serialize emits no entry for an excluded field, and parse and
\* merge leave the value of every excluded field as it was.
C9_AsStated ==
  /\ Serialized =>
       \A p \in Excluded(ClassOf(heap, LastThis)) : ~Emitted(p)
  /\ last.op \in {"parse", "merge"} =>
       \A p \in Excluded(ClassOf(heap, LastThis)) :
         heap[Val(LastThis)].f[p] = last.h0[Val(LastThis)].f[p]

\* ------------------------------------------------- the decorators at class definition
\* one declaration: the decorator's symbol, the class it decorates and the
\* sets it sets
Decl(sym, cls, sets) == [sym |-> sym, cls |-> cls, sets |-> sets]

\* class IPSOObject's own three declarations
BaseDecls ==
  <<Decl("doNotSerialize", "IPSOObject", <<<<"options", Bool(TRUE)>>>>),
    Decl("doNotSerialize", "IPSOObject", <<<<"isProxy", Bool(TRUE)>>>>),
    Decl("doNotSerialize", "IPSOObject", <<<<"client", Bool(TRUE)>>>>)>>

DeclProps == {"n", "b"}
DeclKeys == {"kn", "kb", "b"}

\* the state when class IPSOObject has been defined and no instance exists yet
InitReg ==
  /\ reg = BaseReg
  /\ decls = BaseDecls
  /\ heap = <<>>
  /\ opts = <<>>
  /\ last = NoCall
  /\ budget = 0
  /\ clones = {}
  /\ stack = <<>>

CanDeclare == Len(decls) < Len(BaseDecls) + MaxDecls

\* @ipsoKey(key) on cls.property
DeclareKey(cls, property, key) ==
  /\ CanDeclare
  /\ reg' = ipsoKey(reg, cls, property, key)
  /\ decls' = Append(decls, Decl("ipsoKey", cls,
                                 <<<<property, Str(key)>>, <<key, Str(property)>>>>))
  /\ UNCHANGED <<heap, opts, last, budget, clones, stack>>

\* @required(predicate) on cls.property
DeclareRequired(cls, property, predicate) ==
  /\ CanDeclare
  /\ reg' = required(reg, cls, property, predicate)
  /\ decls' = Append(decls, Decl("required", cls, <<<<property, predicate>>>>))
  /\ UNCHANGED <<heap, opts, last, budget, clones, stack>>

\* @serializeWith(transform) or @deserializeWith(transform) on cls.property
DeclareTransform(cls, property, direction) ==
  /\ CanDeclare
  /\ reg' = IF direction = "serializeWith"
            THEN serializeWith(reg, cls, property,
                               buildPropertyTransform("scaleOut", "unset", "unset"))
            ELSE deserializeWith(reg, cls, property,
                                 buildPropertyTransform("scaleIn", "unset", "unset"))
  /\ decls' = Append(decls, Decl(direction, cls,
       <<<<property, buildPropertyTransform(
             IF direction = "serializeWith" THEN "scaleOut" ELSE "scaleIn",
             "unset", "unset")>>>>))
  /\ UNCHANGED <<heap, opts, last, budget, clones, stack>>

\* @doNotSerialize on cls.property
DeclareExcluded(cls, property) ==
  /\ CanDeclare
  /\ reg' = doNotSerialize(reg, cls, property)
  /\ decls' = Append(decls, Decl("doNotSerialize", cls, <<<<property, Bool(TRUE)>>>>))
  /\ UNCHANGED <<heap, opts, last, budget, clones, stack>>

NextReg ==
  \/ \E cls \in Classes, property \in DeclProps, key \in DeclKeys :
       DeclareKey(cls, property, key)
  \/ \E cls \in Classes, property \in DeclProps, predicate \in {Bool(TRUE), RefNotNull} :
       DeclareRequired(cls, property, predicate)
  \/ \E cls \in Classes, property \in DeclProps,
        direction \in {"serializeWith", "deserializeWith"} :
       DeclareTransform(cls, property, direction)
  \/ \E cls \in Classes, property \in DeclProps : DeclareExcluded(cls, property)

SpecReg == InitReg /\ [][NextReg]_vars

\* ------------------------------------------------- C10
RECURSIVE ApplyEntries(_, _)
ApplyEntries(md, sets) ==
  IF sets = <<>> THEN md
  ELSE ApplyEntries(SetEntry(md, sets[1][1], sets[1][2]), Tail(sets))

\* the table for sym that the declarations made on cls and on its ancestors give,
\* later declarations overriding earlier ones
RECURSIVE Declared(_, _, _)
Declared(ds, sym, cls) ==
  IF ds = <<>> THEN EmptyMeta
  ELSE LET d == ds[Len(ds)]
           rest == Declared(SubSeq(ds, 1, Len(ds) - 1), sym, cls)
       IN IF d.sym = sym /\ d.cls \in {cls} \cup Ancestors(cls)
          THEN ApplyEntries(rest, d.sets)
          ELSE rest

\* C10 as stated: after any sequence of declarations, what a lookup for class C
\* reads is exactly what was declared on C and on C's ancestors, so a declaration
\* on a subclass shows neither on an ancestor nor on a sibling.
C10_AsStated ==
  \A sym \in Syms, cls \in Classes :
    /\ getMetadata(reg, sym, cls) = Declared(decls, sym, cls)
    /\ \A property \in DeclProps :
         isSerializable(reg, cls, property)
           = (property \notin DOMAIN Declared(decls, "doNotSerialize", cls))

\* ------------------------------------------------- C11
\* the <<field, wire key>> pairs declared on cls itself
KeyPairs(cls) ==
  {<<decls[i].sets[1][1], decls[i].sets[2][1]>> :
     i \in {j \in 1..Len(decls) : decls[j].sym = "ipsoKey" /\ decls[j].cls = cls}}

DeclaredFields(cls) == {pair[1] : pair \in KeyPairs(cls)}
DeclaredKeys(cls) == {pair[2] : pair \in KeyPairs(cls)}

\* the wire keys of cls are pairwise distinct and so are its field names, and no
\* other class of the hierarchy declares a key
KeysDistinct(cls) ==
  /\ \A i \in 1..Len(decls) : decls[i].sym = "ipsoKey" => decls[i].cls = cls
  /\ \A x, y \in KeyPairs(cls) : (x[1] = y[1] \/ x[2] = y[2]) => x = y

\* C11 as stated: in a class with pairwise distinct wire keys and pairwise distinct
\* field names, in whatever order the declarations were made, every declared wire
\* key resolves to its field, also when it is the name of another declared field;
\* every declared field whose name is no wire key resolves to its wire key; and a
\* token that is neither resolves to null.
C11_AsStated ==
  \A cls \in Classes :
    KeysDistinct(cls) =>
      /\ \A pair \in KeyPairs(cls) :
           /\ lookupKeyOrProperty(reg, cls, pair[2]) = Str(pair[1])
           /\ pair[1] \notin DeclaredKeys(cls)
                => lookupKeyOrProperty(reg, cls, pair[1]) = Str(pair[2])
      /\ \A token \in (DeclProps \cup DeclKeys) \ (DeclaredFields(cls) \cup DeclaredKeys(cls)) :
           lookupKeyOrProperty(reg, cls, token) = Null

\* ------------------------------------------------- serialize, call by call
\* The calls of serialize that are active: one frame for each, holding the
\* instance it runs on and the index in Object.keys(this) its loop has reached.
\* The frame at the bottom is the call made from outside (serialize, or the
\* serialize of clone).
Frame(op, this, i) == [op |-> op, this |-> this, i |-> i]

Top == stack[Len(stack)]

\* the loop of the top call is at a property holding an instance
AtNested ==
  /\ stack # <<>>
  /\ Top.i <= Len(PropOrder)
  /\ IsSerialized(heap, Top.this, PropOrder[Top.i])
  /\ IsIPSOObject(ReadProp(heap, Top.this, PropOrder[Top.i]))

\* the field values an instance may hold in child and peer
Links == {Absent} \cup {Obj(i) : i \in 1..MaxGraph}

\* every graph of MaxGraph instances linked through child and peer
RunGraphs ==
  {[i \in 1..MaxGraph |->
      [Construct("Outer", Opt(1)) EXCEPT !.f["child"] = g[i][1], !.f["peer"] = g[i][2]]]
   : g \in [1..MaxGraph -> Links \X Links]}

InitRun ==
  /\ reg = ClassReg
  /\ heap \in RunGraphs
  /\ opts = InitOpts
  /\ last = NoCall
  /\ budget = 0
  /\ decls = <<>>
  /\ clones = {}
  /\ stack = <<>>

\* this.serialize() or this.clone() is called
StartCall(op, this) ==
  /\ stack = <<>>
  /\ last = NoCall
  /\ stack' = <<Frame(op, this, 1)>>
  /\ UNCHANGED <<reg, heap, opts, last, budget, decls, clones>>

\* a property that holds no instance (or is not serialized): the loop goes on
SerializeSimple ==
  /\ stack # <<>>
  /\ Top.i <= Len(PropOrder)
  /\ ~AtNested
  /\ stack' = [stack EXCEPT ![Len(stack)].i = @ + 1]
  /\ UNCHANGED <<reg, heap, opts, last, budget, decls, clones>>

\* _ret = value.serialize(refValue): a call on the nested instance begins
SerializeNested ==
  /\ AtNested
  /\ Len(stack) < MaxDepth
  /\ stack' = Append(stack,
       Frame("serialize", unproxy(heap, ReadProp(heap, Top.this, PropOrder[Top.i])), 1))
  /\ UNCHANGED <<reg, heap, opts, last, budget, decls, clones>>

\* the same call when the engine's call stack is full: RangeError ends every call
StackOverflow ==
  /\ AtNested
  /\ Len(stack) = MaxDepth
  /\ stack' = <<>>
  /\ Called(stack[1].op, stack[1].this, Null,
            Err("RangeError: Maximum call stack size exceeded"))
  /\ UNCHANGED <<reg, heap, opts, budget, decls, clones>>

\* return ret, in a nested call: the loop of the calling frame goes on
ReturnNested ==
  /\ Len(stack) > 1
  /\ Top.i > Len(PropOrder)
  /\ stack' = [SubSeq(stack, 1, Len(stack) - 1) EXCEPT ![Len(stack) - 1].i = @ + 1]
  /\ UNCHANGED <<reg, heap, opts, last, budget, decls, clones>>

\* return ret, in the call made from outside; clone goes on to parse the result
ReturnCall ==
  /\ Len(stack) = 1
  /\ Top.i > Len(PropOrder)
  /\ stack' = <<>>
  /\ IF Top.op = "clone"
     THEN /\ heap' = clone(heap, opts, Top.this).h
          /\ Called("clone", Top.this, Null, clone(heap, opts, Top.this).v)
          /\ clones' = clones \cup {<<Val(Top.this), Val(clone(heap, opts, Top.this).v)>>}
     ELSE /\ Called("serialize", Top.this, Null, serialize(heap, opts, Top.this, Null))
          /\ UNCHANGED <<heap, clones>>
  /\ UNCHANGED <<reg, opts, budget, decls>>

NextRun ==
  \/ \E op \in {"serialize", "clone"}, this \in {Obj(i) : i \in 1..MaxGraph} :
       StartCall(op, this)
  \/ SerializeSimple
  \/ SerializeNested
  \/ StackOverflow
  \/ ReturnNested
  \/ ReturnCall

SpecRun == InitRun /\ [][NextRun]_vars

\* ------------------------------------------------- C12
\* C12 as stated: every call of serialize and clone finishes, by returning or by
\* the array mismatch error, within a number of steps that the size of the object
\* graph bounds, also when a nested field refers back to an instance that is being
\* serialized: the calls of serialize active at one time are never more than the
\* instances of the graph, and no call ends in another error.
C12_AsStated ==
  /\ stack # <<>> => Len(stack) <= Len(heap)
  /\ last.op \in {"serialize", "clone"} =>
       (IsErr(last.ret) =>
          last.ret = Err("cannot serialize arrays when the reference values don't match"))

====
